---- MODULE Spec2Model ----
(***************************************************************************)
(* A model of the translation engine of gx-go (src/main.go): the version  *)
(* gate (versionComp), the path resolver (getImportPath,                  *)
(* packagesGoImport), the dependency loader (loadDep), the rewrite table  *)
(* builders (buildRewriteMapping, buildMap) and the rewrite lookup (the   *)
(* rwm closure of doRewrite).                                             *)
(*                                                                         *)
(* Go strings are modelled as sequences of one-character strings, so that *)
(* prefix tests, slicing, splitting and decimal parsing are computed.     *)
(***************************************************************************)
EXTENDS Integers, Sequences, FiniteSets, TLC

VARIABLES
    have, req, vcOut,                       \* version gate: inputs, result
    cwd, gopath, pathOut,                   \* path resolver: globals, last call
    mapping, built, pre, nlookups, lastIn, lastOut, seen,   \* rewrite lookup
    pkgs, rootDeps, found, op, stack, m, err, logs, lastLoad, order, chain, steps  \* builders

varsVersion == <<have, req, vcOut>>
varsPath    == <<cwd, gopath, pathOut>>
varsLookup  == <<mapping, built, pre, nlookups, lastIn, lastOut, seen>>
varsBuild   == <<pkgs, rootDeps, found, op, stack, m, err, logs, lastLoad, order, chain, steps>>
vars        == <<varsVersion, varsPath, varsLookup, varsBuild>>

None == "none"

(***************************************************************************)
(* Strings                                                                 *)
(***************************************************************************)

\* All strings over an alphabet of length at most n.
StringsUpTo(alphabet, n) == UNION {[1..k -> alphabet] : k \in 0..n}

\* strings.HasPrefix(s, p)
HasPrefix(s, p) == Len(p) <= Len(s) /\ SubSeq(s, 1, Len(p)) = p

\* s[n:] with a 0-based byte offset n
SliceFrom(s, n) == SubSeq(s, n + 1, Len(s))

\* The index of the first occurrence of character c in s, 0 when absent.
RECURSIVE IndexFrom(_, _, _)
IndexFrom(s, c, i) ==
    IF i > Len(s) THEN 0
    ELSE IF s[i] = c THEN i
    ELSE IndexFrom(s, c, i + 1)

\* strings.Split(s, sep) for a one-character separator: always at least one
\* component, empty components kept.
RECURSIVE Split(_, _)
Split(s, sep) ==
    LET i == IndexFrom(s, sep, 1) IN
    IF i = 0 THEN <<s>>
    ELSE <<SubSeq(s, 1, i - 1)>> \o Split(SubSeq(s, i + 1, Len(s)), sep)

Digits == {"0", "1", "2", "3", "4", "5", "6", "7", "8", "9"}

DigitVal(c) ==
    CASE c = "0" -> 0 [] c = "1" -> 1 [] c = "2" -> 2 [] c = "3" -> 3
      [] c = "4" -> 4 [] c = "5" -> 5 [] c = "6" -> 6 [] c = "7" -> 7
      [] c = "8" -> 8 [] c = "9" -> 9

\* The value of a string of decimal digits.
RECURSIVE DecVal(_)
DecVal(s) ==
    IF s = <<>> THEN 0
    ELSE 10 * DecVal(SubSeq(s, 1, Len(s) - 1)) + DigitVal(s[Len(s)])

\* strconv.Atoi: an optional sign, then one or more decimal digits; anything
\* else is a syntax error.  (The range error for values outside the int range
\* cannot occur for strings of the bounded length used here.)
Atoi(s) ==
    LET signed == s # <<>> /\ s[1] \in {"+", "-"}
        body   == IF signed THEN SliceFrom(s, 1) ELSE s
    IN  IF body = <<>> \/ \E i \in 1..Len(body) : body[i] \notin Digits
        THEN [val |-> 0, err |-> "InvalidSyntax"]
        ELSE [val |-> IF signed /\ s[1] = "-" THEN 0 - DecVal(body) ELSE DecVal(body),
              err |-> "nil"]

(***************************************************************************)
(* Version gate                                                            *)
(***************************************************************************)

min(a, b) == IF a < b THEN a ELSE b

\* The loop of versionComp over the truncated component lists hp, rp, from
\* index i (1-based): each iteration parses hp[i], then rp[i], and returns at
\* the first parse error or the first difference.
RECURSIVE VersionLoop(_, _, _)
VersionLoop(hp, rp, i) ==
    IF i > Len(hp) THEN [res |-> FALSE, err |-> "nil"]
    ELSE LET hv == Atoi(hp[i])
             rv == Atoi(rp[i])
         IN  IF hv.err # "nil" THEN [res |-> FALSE, err |-> hv.err]
             ELSE IF rv.err # "nil" THEN [res |-> FALSE, err |-> rv.err]
             ELSE IF hv.val < rv.val THEN [res |-> TRUE, err |-> "nil"]
             ELSE IF hv.val > rv.val THEN [res |-> FALSE, err |-> "nil"]
             ELSE VersionLoop(hp, rp, i + 1)

\* The loop with the comparison reversed: true where have is the greater.
RECURSIVE VersionLoopSwapped(_, _, _)
VersionLoopSwapped(hp, rp, i) ==
    IF i > Len(hp) THEN [res |-> FALSE, err |-> "nil"]
    ELSE LET hv == Atoi(hp[i])
             rv == Atoi(rp[i])
         IN  IF hv.err # "nil" THEN [res |-> FALSE, err |-> hv.err]
             ELSE IF rv.err # "nil" THEN [res |-> FALSE, err |-> rv.err]
             ELSE IF hv.val > rv.val THEN [res |-> TRUE, err |-> "nil"]
             ELSE IF hv.val < rv.val THEN [res |-> FALSE, err |-> "nil"]
             ELSE VersionLoopSwapped(hp, rp, i + 1)

versionCompSwapped(h, r) ==
    LET hp == Split(h, ".")
        rp == Split(r, ".")
        l  == min(Len(hp), Len(rp))
    IN  VersionLoopSwapped(SubSeq(hp, 1, l), SubSeq(rp, 1, l), 1)

versionComp(h, r) ==
    LET hp == Split(h, ".")
        rp == Split(r, ".")
        l  == min(Len(hp), Len(rp))
    IN  VersionLoop(SubSeq(hp, 1, l), SubSeq(rp, 1, l), 1)

\* The value of vcOut before the call.
NoResult == [res |-> FALSE, err |-> "none"]

MaxHaveLen == 4
MaxReqLen  == 3
VersionChars == {"1", "2", ".", "x"}

\* reqCheckHook calls versionComp(havevers, reqvers) once.
CallVersionComp ==
    /\ vcOut = NoResult
    /\ vcOut' = versionComp(have, req)
    /\ UNCHANGED <<have, req, varsPath, varsLookup, varsBuild>>

(***************************************************************************)
(* Path resolver                                                           *)
(***************************************************************************)

\* Collapse runs of "/" into one.
RECURSIVE Squeeze(_)
Squeeze(s) ==
    IF Len(s) < 2 THEN s
    ELSE IF s[1] = "/" /\ s[2] = "/" THEN Squeeze(Tail(s))
    ELSE <<s[1]>> \o Squeeze(Tail(s))

\* path.Join(a, b): the non-empty elements joined by "/" and cleaned.  Of
\* path.Clean only what the paths used here can need is modelled: repeated
\* slashes are collapsed and a trailing slash is dropped ("." and ".."
\* elements do not occur).
Join(a, b) ==
    LET raw == IF a = <<>> THEN b ELSE IF b = <<>> THEN a ELSE a \o <<"/">> \o b
        sq  == Squeeze(raw)
    IN  IF Len(sq) > 1 /\ sq[Len(sq)] = "/" THEN SubSeq(sq, 1, Len(sq) - 1) ELSE sq

Src == <<"s", "r", "c">>

\* getGoPath: the first entry of the GOPATH list, an error when GOPATH is empty.
getGoPath(env) ==
    IF env = <<>> THEN [val |-> <<>>, err |-> "GOPATHNotSet"]
    ELSE [val |-> Split(env, ":")[1], err |-> "nil"]

\* getImportPath(pkgpath), reading the globals cwd and GOPATH: the prefix test
\* and the slice are applied to the global wd, not to pkgpath.
getImportPath(pkgpath, wd, env) ==
    LET gp     == getGoPath(env)
        srcdir == Join(gp.val, Src) \o <<"/">>
    IN  IF gp.err # "nil" THEN [val |-> <<>>, err |-> "GOPATHNotSet"]
        ELSE IF ~HasPrefix(wd, srcdir) THEN [val |-> <<>>, err |-> "NotUnderRoot"]
        ELSE [val |-> SliceFrom(wd, Len(srcdir)), err |-> "nil"]

\* packagesGoImport(p)
packagesGoImport(p, env) ==
    LET gp     == getGoPath(env)
        srcdir == Join(gp.val, Src) \o <<"/">>
    IN  IF gp.err # "nil" THEN [val |-> <<>>, err |-> gp.err]
        ELSE IF ~HasPrefix(p, srcdir) THEN [val |-> <<>>, err |-> "NotUnderRoot"]
        ELSE [val |-> SliceFrom(p, Len(srcdir)), err |-> "nil"]

\* Paths the process may run in or be handed: inside and outside /g/src.
Paths ==
    { <<"/", "g", "/", "s", "r", "c", "/", "a">>,
      <<"/", "g", "/", "s", "r", "c", "/", "b", "/", "c">>,
      <<"/", "g", "/", "s", "r", "c", "x", "/", "a">>,
      <<"/", "h", "/", "s", "r", "c", "/", "a">>,
      <<"/", "g", "/", "s", "r", "c", "/">>,
      <<"/", "g", "/", "s", "r", "c">>,
      <<"/", "g">> }

\* Values of the GOPATH variable: unset, one entry, a list.
GoPathEnvs ==
    { <<>>, <<"/", "g">>, <<"/", "g", ":", "/", "h">>, <<"/", "h">> }

\* The value of pathOut before a call.
NoCall == [fn |-> "none", arg |-> <<>>, out |-> [val |-> <<>>, err |-> "none"]]

CallGetImportPath ==
    /\ pathOut = NoCall
    /\ \E p \in Paths :
         pathOut' = [fn |-> "getImportPath", arg |-> p, out |-> getImportPath(p, cwd, gopath)]
    /\ UNCHANGED <<cwd, gopath, varsVersion, varsLookup, varsBuild>>

CallPackagesGoImport ==
    /\ pathOut = NoCall
    /\ \E p \in Paths :
         pathOut' = [fn |-> "packagesGoImport", arg |-> p, out |-> packagesGoImport(p, gopath)]
    /\ UNCHANGED <<cwd, gopath, varsVersion, varsLookup, varsBuild>>

(***************************************************************************)
(* Rewrite lookup: the rwm closure of doRewrite                            *)
(***************************************************************************)

\* strings.Index(s, sub): 0-based offset of the first occurrence, -1 if none.
Index(s, sub) ==
    LET hits == {i \in 0..(Len(s) - Len(sub)) : SubSeq(s, i + 1, i + Len(sub)) = sub}
    IN  IF hits = {} THEN -1 ELSE CHOOSE i \in hits : \A j \in hits : i <= j

\* strings.Replace(s, old, new, 1): the first occurrence of old replaced.
Replace1(s, old, new) ==
    LET i == Index(s, old)
    IN  IF i < 0 THEN s
        ELSE SubSeq(s, 1, i) \o new \o SliceFrom(s, i + Len(old))

Slash == <<"/">>
GxIpfs == <<"g", "x", "/", "i", "p", "f", "s", "/">>

\* "gx/ipfs/" + hash + "/" + name
GxPath(hash, name) == GxIpfs \o hash \o Slash \o name

\* The keys of table t that the range loop's test accepts for in.
PrefixKeys(t, in) == {k \in DOMAIN t : HasPrefix(in, k \o Slash)}

\* A map with one key set: m[k] = v.
Put(t, k, v) == [x \in (DOMAIN t) \cup {k} |-> IF x = k THEN v ELSE t[x]]

EmptyMap == [x \in {} |-> <<>>]

MaxLookups == 3

\* The import paths the source tree rewriter hands to rwm.
Imports ==
    { <<"a">>, <<"a", "/", "b">>, <<"a", "/", "b", "/", "c">>, <<"a", "/", "c">>,
      <<"a", "b">>, <<"b">>, <<"a", "/", "b", "c">> }

\* Tables as buildRewriteMapping leaves them: DVCS import paths mapped to
\* hash-qualified paths.
TableKeys == { <<"a">>, <<"a", "/", "b">> }
TableValues == { GxPath(<<"Q", "1">>, <<"y">>), GxPath(<<"Q", "2">>, <<"z">>) }
BuiltTables == UNION {[K -> TableValues] : K \in SUBSET TableKeys}

\* rwm(in), exact hit: the stored value is returned, the map is left alone.
LookupHit ==
    /\ nlookups < MaxLookups
    /\ \E in \in Imports :
         /\ in \in DOMAIN mapping
         /\ lastIn' = in
         /\ lastOut' = mapping[in]
         /\ seen' = IF in \in DOMAIN seen THEN seen ELSE Put(seen, in, mapping[in])
    /\ pre' = mapping
    /\ nlookups' = nlookups + 1
    /\ UNCHANGED <<mapping, built, varsVersion, varsPath, varsBuild>>

\* rwm(in), no exact hit: the range over the map stops at the first key k with
\* in having prefix k + "/"; Go leaves the iteration order of a map
\* unspecified, so the key that is met first is any of the accepted keys.
LookupPrefix ==
    /\ nlookups < MaxLookups
    /\ \E in \in Imports :
         /\ in \notin DOMAIN mapping
         /\ \E k \in PrefixKeys(mapping, in) :
              LET nmapping == Replace1(in, k, mapping[k])
              IN  /\ mapping' = Put(mapping, in, nmapping)
                  /\ lastIn' = in
                  /\ lastOut' = nmapping
                  /\ seen' = IF in \in DOMAIN seen THEN seen ELSE Put(seen, in, nmapping)
    /\ pre' = mapping
    /\ nlookups' = nlookups + 1
    /\ UNCHANGED <<built, varsVersion, varsPath, varsBuild>>

\* rwm(in), no key accepted: in is cached as its own image and returned.
LookupIdentity ==
    /\ nlookups < MaxLookups
    /\ \E in \in Imports :
         /\ in \notin DOMAIN mapping
         /\ PrefixKeys(mapping, in) = {}
         /\ mapping' = Put(mapping, in, in)
         /\ lastIn' = in
         /\ lastOut' = in
         /\ seen' = IF in \in DOMAIN seen THEN seen ELSE Put(seen, in, in)
    /\ pre' = mapping
    /\ nlookups' = nlookups + 1
    /\ UNCHANGED <<built, varsVersion, varsPath, varsBuild>>

(***************************************************************************)
(* Dependency loader                                                       *)
(***************************************************************************)

NumDeps == 2

DigitChar(i) ==
    CASE i = 1 -> "1" [] i = 2 -> "2" [] i = 3 -> "3" [] i = 4 -> "4" [] i = 5 -> "5"

\* The content hash, the package name and the name dependents use for the
\* i-th package of the dependency tree.
HashStr(i) == <<"Q", DigitChar(i)>>
PkgName(i) == <<"p", DigitChar(i)>>
RefName(i) == <<"d", DigitChar(i)>>
Hashes     == {HashStr(i) : i \in 1..NumDeps}
RootName   == <<"r">>

\* gx.Dependency{Name, Hash}
DepRef(i) == [name |-> RefName(i), hash |-> HashStr(i)]

\* The package directory handed to the builder and the global one,
\* globalPath() = GOPATH/src/gx/ipfs.
PkgDir == <<"v">>
globalPath == Join(Join(Join(<<"/", "g">>, Src), <<"g", "x">>), <<"i", "p", "f", "s">>)

\* gx.FindPackageInDir(&pkg, dir) for the directory of hash h under root
\* directory dir: the descriptor when the package is there, else an error that
\* names the directory searched.  found[h] says where the descriptor of h can
\* be read: "local" (under PkgDir), "global" (only under globalPath), "none".
Nil   == [kind |-> "nil", dirs |-> {}, names |-> {}]
NoPkg == [name |-> <<>>, dvcs |-> <<>>, deps |-> <<>>]
NoLoad == [dep |-> [name |-> <<>>, hash |-> <<>>],
           out |-> [pkg |-> NoPkg, err |-> Nil, from |-> <<>>]]

FindPackageInDir(dir, h) ==
    IF (dir = PkgDir /\ found[h] = "local") \/ (dir = globalPath /\ found[h] = "global")
    THEN [pkg |-> pkgs[h], err |-> Nil]
    ELSE [pkg |-> NoPkg, err |-> [kind |-> "NotFound", dirs |-> {Join(dir, h)}, names |-> {}]]

\* loadDep(dep, pkgdir): the local directory, then the global one; the error
\* returned wraps the global lookup's error only.
loadDep(dep, pkgdir) ==
    LET l == FindPackageInDir(pkgdir, dep.hash)
        g == FindPackageInDir(globalPath, dep.hash)
    IN  IF l.err = Nil THEN [pkg |-> l.pkg, err |-> Nil, from |-> Join(pkgdir, dep.hash)]
        ELSE IF g.err = Nil THEN [pkg |-> g.pkg, err |-> Nil, from |-> Join(globalPath, dep.hash)]
        ELSE [pkg |-> NoPkg, err |-> [kind |-> "NotFound", dirs |-> g.err.dirs, names |-> {}],
              from |-> <<>>]

(***************************************************************************)
(* Rewrite table builders                                                  *)
(***************************************************************************)

\* addRewriteForDep with the target built from the name the dependent uses
\* for the dependency instead of the package's own name.
addRewriteForDepRefName(dep, pkg, t, undo) ==
    IF pkg.dvcs # <<>>
    THEN LET from == pkg.dvcs
             to   == GxPath(dep.hash, dep.name)
         IN  IF undo THEN Put(t, to, from) ELSE Put(t, from, to)
    ELSE t

\* addRewriteForDep(dep, pkg, m, undo)
addRewriteForDep(dep, pkg, t, undo) ==
    IF pkg.dvcs # <<>>
    THEN LET from == pkg.dvcs
             to   == GxPath(dep.hash, pkg.name)
         IN  IF undo THEN Put(t, to, from) ELSE Put(t, from, to)
    ELSE t

Top == stack[Len(stack)]
Pop == SubSeq(stack, 1, Len(stack) - 1)
Advance == [stack EXCEPT ![Len(stack)].i = @ + 1]
Rewriting == op \in {"rewrite", "undo"}

\* buildRewriteMapping, one iteration of the loop whose loadDep succeeds: the
\* entry is added and the call recurses into the child.
RewriteVisit ==
    /\ steps' = steps + 1
    /\ Rewriting /\ err = Nil /\ stack # <<>>
    /\ Top.i <= Len(Top.pkg.deps)
    /\ LET dep == Top.pkg.deps[Top.i]
           r   == loadDep(dep, PkgDir)
       IN  /\ r.err = Nil
           /\ m' = addRewriteForDep(dep, r.pkg, m, op = "undo")
           /\ stack' = Append(Advance, [pkg |-> r.pkg, i |-> 1])
           /\ lastLoad' = [dep |-> dep, out |-> r]
           /\ order' = Append(order, dep.hash)
    /\ UNCHANGED <<pkgs, rootDeps, found, op, err, logs, chain,
                   varsVersion, varsPath, varsLookup>>

\* buildRewriteMapping, an iteration whose loadDep fails: the call returns the
\* loader's error with the names of the dependency and of the package that
\* declares it.
RewriteLoadFail ==
    /\ steps' = steps + 1
    /\ Rewriting /\ err = Nil /\ stack # <<>>
    /\ Top.i <= Len(Top.pkg.deps)
    /\ LET dep == Top.pkg.deps[Top.i]
           r   == loadDep(dep, PkgDir)
       IN  /\ r.err # Nil
           /\ err' = [kind |-> r.err.kind, dirs |-> r.err.dirs, names |-> {dep.name, Top.pkg.name}]
           /\ lastLoad' = [dep |-> dep, out |-> r]
           /\ chain' = [i \in 1..(Len(stack) + 1) |->
                          IF i <= Len(stack) THEN stack[i].pkg.name ELSE dep.name]
    /\ stack' = Pop
    /\ UNCHANGED <<pkgs, rootDeps, found, op, m, logs, order,
                   varsVersion, varsPath, varsLookup>>

\* buildRewriteMapping, the loop is over: return nil.
RewriteReturn ==
    /\ steps' = steps + 1
    /\ Rewriting /\ err = Nil /\ stack # <<>>
    /\ Top.i > Len(Top.pkg.deps)
    /\ stack' = Pop
    /\ UNCHANGED <<pkgs, rootDeps, found, op, m, err, logs, lastLoad, order, chain,
                   varsVersion, varsPath, varsLookup>>

\* buildRewriteMapping, the recursive call failed: return err, as it is.
RewriteReturnErr ==
    /\ steps' = steps + 1
    /\ Rewriting /\ err # Nil /\ stack # <<>>
    /\ stack' = Pop
    /\ UNCHANGED <<pkgs, rootDeps, found, op, m, err, logs, lastLoad, order, chain,
                   varsVersion, varsPath, varsLookup>>

\* buildMap, an iteration for a child without DVCS import, or with one that
\* is not yet a key: the entry (import -> hash) is added in the second case
\* and the call recurses into the child.
MapVisit ==
    /\ steps' = steps + 1
    /\ op = "depmap" /\ err = Nil /\ stack # <<>>
    /\ Top.i <= Len(Top.pkg.deps)
    /\ LET dep == Top.pkg.deps[Top.i]
           r   == FindPackageInDir(PkgDir, dep.hash)
       IN  /\ r.err = Nil
           /\ r.pkg.dvcs = <<>> \/ r.pkg.dvcs \notin DOMAIN m
           /\ m' = IF r.pkg.dvcs # <<>> THEN Put(m, r.pkg.dvcs, dep.hash) ELSE m
           /\ stack' = Append(Advance, [pkg |-> r.pkg, i |-> 1])
           /\ order' = Append(order, dep.hash)
    /\ UNCHANGED <<pkgs, rootDeps, found, op, err, logs, lastLoad, chain,
                   varsVersion, varsPath, varsLookup>>

\* buildMap, an iteration for a child whose DVCS import is already a key: when
\* the hashes differ three lines are logged (the import, the hash kept, the
\* hash met); the entry is kept and the child is not descended into.
MapVisitSeen ==
    /\ steps' = steps + 1
    /\ op = "depmap" /\ err = Nil /\ stack # <<>>
    /\ Top.i <= Len(Top.pkg.deps)
    /\ LET dep == Top.pkg.deps[Top.i]
           r   == FindPackageInDir(PkgDir, dep.hash)
       IN  /\ r.err = Nil
           /\ r.pkg.dvcs # <<>> /\ r.pkg.dvcs \in DOMAIN m
           /\ logs' = IF m[r.pkg.dvcs] # dep.hash
                      THEN logs \o << r.pkg.dvcs, m[r.pkg.dvcs], dep.hash >>
                      ELSE logs
           /\ order' = Append(order, dep.hash)
    /\ stack' = Advance
    /\ UNCHANGED <<pkgs, rootDeps, found, op, m, err, lastLoad, chain,
                   varsVersion, varsPath, varsLookup>>

\* buildMap, the child is not in the vendor directory: return the error.
MapLoadFail ==
    /\ steps' = steps + 1
    /\ op = "depmap" /\ err = Nil /\ stack # <<>>
    /\ Top.i <= Len(Top.pkg.deps)
    /\ LET dep == Top.pkg.deps[Top.i]
           r   == FindPackageInDir(PkgDir, dep.hash)
       IN  /\ r.err # Nil
           /\ err' = r.err
    /\ stack' = Pop
    /\ UNCHANGED <<pkgs, rootDeps, found, op, m, logs, lastLoad, order, chain,
                   varsVersion, varsPath, varsLookup>>

\* buildMap, the loop is over: return nil.
MapReturn ==
    /\ steps' = steps + 1
    /\ op = "depmap" /\ err = Nil /\ stack # <<>>
    /\ Top.i > Len(Top.pkg.deps)
    /\ stack' = Pop
    /\ UNCHANGED <<pkgs, rootDeps, found, op, m, err, logs, lastLoad, order, chain,
                   varsVersion, varsPath, varsLookup>>

\* buildMap, the recursive call failed: return err.
MapReturnErr ==
    /\ steps' = steps + 1
    /\ op = "depmap" /\ err # Nil /\ stack # <<>>
    /\ stack' = Pop
    /\ UNCHANGED <<pkgs, rootDeps, found, op, m, err, logs, lastLoad, order, chain,
                   varsVersion, varsPath, varsLookup>>

(***************************************************************************)
(* Initial states and specifications                                       *)
(***************************************************************************)

IdleVersion == have = <<>> /\ req = <<>> /\ vcOut = NoResult
IdlePath    == cwd = <<>> /\ gopath = <<>> /\ pathOut = NoCall
IdleLookup  ==
    /\ mapping = EmptyMap /\ built = EmptyMap /\ pre = EmptyMap /\ seen = EmptyMap
    /\ nlookups = 0 /\ lastIn = <<>> /\ lastOut = <<>>
IdleBuild   ==
    /\ pkgs = EmptyMap /\ rootDeps = <<>> /\ found = EmptyMap /\ op = None
    /\ stack = <<>> /\ m = EmptyMap /\ err = Nil /\ logs = <<>>
    /\ lastLoad = NoLoad /\ order = <<>> /\ chain = <<>> /\ steps = 0

\* The version gate applied to a pair of version strings.
InitVersion ==
    /\ have \in StringsUpTo(VersionChars, MaxHaveLen)
    /\ req \in StringsUpTo(VersionChars, MaxReqLen)
    /\ vcOut = NoResult
    /\ IdlePath /\ IdleLookup /\ IdleBuild
NextVersion == CallVersionComp
SpecVersion == InitVersion /\ [][NextVersion]_vars

\* The path resolvers called in a process whose working directory and GOPATH
\* main has read.
InitPath ==
    /\ cwd \in Paths
    /\ gopath \in GoPathEnvs
    /\ pathOut = NoCall
    /\ IdleVersion /\ IdleLookup /\ IdleBuild
NextPath == CallGetImportPath \/ CallPackagesGoImport
SpecPath == InitPath /\ [][NextPath]_vars

\* The rewrite lookup called by the source tree rewriter on a built table.
InitLookup ==
    /\ built \in BuiltTables
    /\ mapping = built /\ pre = built /\ seen = EmptyMap
    /\ nlookups = 0 /\ lastIn = <<>> /\ lastOut = <<>>
    /\ IdleVersion /\ IdlePath /\ IdleBuild
NextLookup == LookupHit \/ LookupPrefix \/ LookupIdentity
SpecLookup == InitLookup /\ [][NextLookup]_vars

\* Sequences over S without repetition.
SeqsNoRep(S) ==
    {s \in UNION {[1..k -> S] : k \in 0..Cardinality(S)} :
        \A i, j \in DOMAIN s : i # j => s[i] # s[j]}

\* The dependency lists package i may declare: references to packages of a
\* higher index, in any order, so that the dependency graph is acyclic
\* (i = 0 is the root package).
DepLists(i) ==
    {[k \in DOMAIN s |-> DepRef(s[k])] : s \in SeqsNoRep((i + 1)..NumDeps)}

DvcsImports == {<<>>} \cup TableKeys

Descriptors(i) ==
    [name : {PkgName(i)}, dvcs : DvcsImports, deps : DepLists(i)]

\* A builder called on a root package whose dependency tree is on disk.
InitBuild ==
    /\ \E f \in [1..NumDeps -> UNION {Descriptors(i) : i \in 1..NumDeps}] :
         /\ \A i \in 1..NumDeps : f[i] \in Descriptors(i)
         /\ pkgs = [h \in Hashes |-> f[CHOOSE i \in 1..NumDeps : HashStr(i) = h]]
    /\ rootDeps \in DepLists(0)
    /\ found \in [Hashes -> {"local", "global", "none"}]
    /\ op \in {"rewrite", "undo", "depmap"}
    /\ stack = <<[pkg |-> [name |-> RootName, dvcs |-> <<>>, deps |-> rootDeps], i |-> 1]>>
    /\ m = EmptyMap /\ err = Nil /\ logs = <<>>
    /\ lastLoad = NoLoad /\ order = <<>> /\ chain = <<>> /\ steps = 0
    /\ IdleVersion /\ IdlePath /\ IdleLookup
NextBuild ==
    \/ RewriteVisit \/ RewriteLoadFail \/ RewriteReturn \/ RewriteReturnErr
    \/ MapVisit \/ MapVisitSeen \/ MapLoadFail \/ MapReturn \/ MapReturnErr
SpecBuild == InitBuild /\ [][NextBuild]_vars

(***************************************************************************)
(* Properties: version gate                                                *)
(***************************************************************************)

\* A component that is a non-negative integer: one or more decimal digits.
IsNat(c) == c # <<>> /\ \A i \in DOMAIN c : c[i] \in Digits

HaveParts == Split(have, ".")
ReqParts  == Split(req, ".")
Retained  == min(Len(HaveParts), Len(ReqParts))

\* have is strictly less than required, component-wise, over the components
\* retained after truncation to the shorter length.
StrictlyLess ==
    \E i \in 1..Retained :
        /\ DecVal(HaveParts[i]) < DecVal(ReqParts[i])
        /\ \A j \in 1..(i - 1) : DecVal(HaveParts[j]) = DecVal(ReqParts[j])

Called == vcOut # NoResult

\* C5: for versions whose components are all non-negative integers,
\* versionComp returns without error, and returns true iff have, truncated to
\* the shorter length, is strictly less than required, truncated likewise.
VersionGateResult ==
    (/\ Called
     /\ \A i \in DOMAIN HaveParts : IsNat(HaveParts[i])
     /\ \A i \in DOMAIN ReqParts : IsNat(ReqParts[i]))
    => (vcOut.err = "nil" /\ (vcOut.res <=> StrictlyLess))

\* C5 witness: the gate has answered true for numeric versions with different
\* numbers of components, so that one of them was truncated.
VersionGateWitness ==
    /\ Called
    /\ \A i \in DOMAIN HaveParts : IsNat(HaveParts[i])
    /\ \A i \in DOMAIN ReqParts : IsNat(ReqParts[i])
    /\ Len(HaveParts) # Len(ReqParts)
    /\ vcOut.res = TRUE

\* C6: versionComp fails whenever some retained component of have or of
\* required is not a non-negative integer, wherever that component stands.
VersionGateError ==
    (/\ Called
     /\ \E i \in 1..Retained : ~IsNat(HaveParts[i]) \/ ~IsNat(ReqParts[i]))
    => vcOut.err # "nil"

(***************************************************************************)
(* Properties: path resolver                                               *)
(***************************************************************************)

SourceRoot == Split(gopath, ":")[1]
RootPrefix == SourceRoot \o Slash \o Src \o Slash

\* C7: with a source root set, a resolver call fails with NotUnderRoot iff
\* its argument does not begin with sourceRoot + "/src/", and otherwise
\* returns the argument's suffix after that prefix, whatever the process
\* working directory is.
PathResolverContract ==
    (pathOut # NoCall /\ gopath # <<>>)
    => /\ (pathOut.out.err = "NotUnderRoot") <=> ~HasPrefix(pathOut.arg, RootPrefix)
       /\ HasPrefix(pathOut.arg, RootPrefix)
            => /\ pathOut.out.err = "nil"
               /\ pathOut.out.val = SliceFrom(pathOut.arg, Len(RootPrefix))

(***************************************************************************)
(* Properties: rewrite lookup                                              *)
(***************************************************************************)

Longest(K) == CHOOSE k \in K : \A j \in K : Len(j) <= Len(k)

\* The lookup of section 4.5 without the cache: exact key, else the longest
\* key k with s having prefix k + "/", else s itself.
RefLookup(t, s) ==
    IF s \in DOMAIN t THEN t[s]
    ELSE IF PrefixKeys(t, s) # {}
         THEN LET k == Longest(PrefixKeys(t, s)) IN t[k] \o SliceFrom(s, Len(k))
         ELSE s

\* C1: a lookup of a string that is not a key, and that several keys accept,
\* returns the value of the longest accepted key followed by the rest of the
\* string.
LongestPrefixWins ==
    (nlookups > 0 /\ lastIn \notin DOMAIN pre /\ PrefixKeys(pre, lastIn) # {})
    => LET k == Longest(PrefixKeys(pre, lastIn))
       IN  lastOut = pre[k] \o SliceFrom(lastIn, Len(k))

\* C2: the prefix substitution law for the entries the builder made, in the
\* case the claim singles out: (k -> v) is a builder entry, s = k + "/" + rest
\* is no key, and no other builder key is accepted for s (the table may hold
\* cached entries for proper prefixes of k); then lookup(s) = v + "/" + rest.
PrefixSubstitutionLaw ==
    \A k \in DOMAIN built :
        (/\ nlookups > 0
         /\ lastIn \notin DOMAIN pre
         /\ PrefixKeys(built, lastIn) = {k})
        => lastOut = built[k] \o SliceFrom(lastIn, Len(k))

\* C3: every lookup returns what the non-caching lookup returns on the table
\* as the builder left it, and what the first lookup of that string returned.
MemoizationTransparent ==
    nlookups > 0
    => /\ lastOut = RefLookup(built, lastIn)
       /\ lastOut = seen[lastIn]

(***************************************************************************)
(* Properties: loader and builders                                         *)
(***************************************************************************)

Range(f) == {f[x] : x \in DOMAIN f}
Pairs(t) == {<<k, t[k]>> : k \in DOMAIN t}

DepHashes(deps) == {deps[k].hash : k \in DOMAIN deps}

\* The hashes reachable from the root package along dependency edges.
RECURSIVE ReachIn(_, _)
ReachIn(S, n) ==
    IF n = 0 THEN S
    ELSE ReachIn(S \cup UNION {DepHashes(pkgs[h].deps) : h \in S}, n - 1)
Reachable == ReachIn(DepHashes(rootDeps), NumDeps)

\* The hashes of the packages that declare a dependency on h.
Parents(h) == {g \in Reachable : h \in DepHashes(pkgs[g].deps)}

BuildDone == op # None /\ stack = <<>>
AllLoad == \A h \in Reachable : found[h] # "none"
NoSharedImport ==
    \A g, h \in Reachable : (g # h /\ pkgs[g].dvcs = pkgs[h].dvcs) => pkgs[h].dvcs = <<>>

\* The pairs the dependency edges stand for.
EdgePairs ==
    {<<pkgs[h].dvcs, GxPath(h, pkgs[h].name)>> : h \in {g \in Reachable : pkgs[g].dvcs # <<>>}}
Reversed(P) == {<<p[2], p[1]>> : p \in P}

\* C9, the table: when every reachable descriptor loads and no two reachable
\* dependencies share a DVCS import, buildRewriteMapping returns without
\* error and the table is exactly the set of pairs
\* (child.DvcsImport -> "gx/ipfs/" + hash + "/" + child.Name) over the
\* reachable edges whose child has a DVCS import; reversed with undo.
TableIsEdgePairs ==
    (BuildDone /\ Rewriting /\ AllLoad /\ NoSharedImport)
    => /\ err = Nil
       /\ Pairs(m) = IF op = "undo" THEN Reversed(EdgePairs) ELSE EdgePairs

\* A dependency tree of NumDeps packages has at most 2^NumDeps - 1 paths from
\* the root; a build visits each once and returns once from each call.
MaxSteps == 2 * (2 ^ NumDeps - 1) + 1

\* C9: the builder terminates (it never takes more than MaxSteps steps), and
\* the table it leaves is the set of edge pairs (TableIsEdgePairs).
BuildCoverage ==
    /\ steps <= MaxSteps
    /\ TableIsEdgePairs

\* C9 witness: an undo build that is over, of a tree in which a package with
\* a DVCS import is reached only through a dependency that has none.
BuildCoverageWitness ==
    /\ BuildDone /\ op = "undo" /\ AllLoad /\ NoSharedImport
    /\ \E h \in Reachable :
         /\ pkgs[h].dvcs # <<>>
         /\ h \notin DepHashes(rootDeps)
         /\ \A g \in Parents(h) : pkgs[g].dvcs = <<>>
         /\ <<GxPath(h, pkgs[h].name), pkgs[h].dvcs>> \in Pairs(m)

\* The positions in the pre-order of encounters of two dependencies with
\* different hashes and the same DVCS import, the first being the first
\* dependency met with that import.
Conflicts ==
    {p \in (DOMAIN order) \X (DOMAIN order) :
        /\ p[1] < p[2]
        /\ order[p[1]] # order[p[2]]
        /\ pkgs[order[p[1]]].dvcs # <<>>
        /\ pkgs[order[p[1]]].dvcs = pkgs[order[p[2]]].dvcs
        /\ \A i \in 1..(p[1] - 1) : pkgs[order[i]].dvcs # pkgs[order[p[1]]].dvcs}

\* C4: a build that met two dependencies with the same DVCS import and
\* different hashes does not fail for it, holds for that import the entry of
\* the dependency met first, and has logged a diagnostic naming both hashes.
ConflictFirstWins ==
    (BuildDone /\ op \in {"rewrite", "depmap"} /\ err = Nil)
    => \A p \in Conflicts :
         LET first == order[p[1]]
             d     == pkgs[first].dvcs
         IN  /\ d \in DOMAIN m
             /\ m[d] = IF op = "depmap" THEN first ELSE GxPath(first, pkgs[first].name)
             /\ {first, order[p[2]]} \subseteq Range(logs)

\* C8: loadDep returns the descriptor of the local directory when it is
\* there, else the one of the global directory, and when it is in neither it
\* returns no descriptor and an error naming both directories searched.
LoaderFallback ==
    lastLoad # NoLoad
    => LET h == lastLoad.dep.hash
           r == lastLoad.out
       IN  /\ found[h] = "local"
                => r.err = Nil /\ r.pkg = pkgs[h] /\ r.from = Join(PkgDir, h)
           /\ found[h] = "global"
                => r.err = Nil /\ r.pkg = pkgs[h] /\ r.from = Join(globalPath, h)
           /\ found[h] = "none"
                => /\ r.err.kind = "NotFound" /\ r.pkg = NoPkg
                   /\ {Join(PkgDir, h), Join(globalPath, h)} \subseteq r.err.dirs

\* C10: the error buildRewriteMapping returns to its caller names every
\* package on the path from the root package to the dependency that failed
\* to load.
ErrorCarriesChain ==
    (BuildDone /\ Rewriting /\ err # Nil)
    => \A i \in DOMAIN chain : chain[i] \in err.names

====
